---- MODULE Spec2Model ----
(***************************************************************************)
(* webfiddle: the content-rewriting reverse proxy.                         *)
(*                                                                         *)
(* Text is modelled as a sequence of tokens.  A token is a delimiter       *)
(* ("/", "?", "#", a quote, a blank, ">", ";", ")"), a keyword of the      *)
(* rewriter's patterns ("href=", "src=", "@import", "url(", "http:",       *)
(* "https:", "data:") or a run of other characters (a host name, a path    *)
(* segment, "." and "..").  Python's None and the empty string are both    *)
(* falsy in every test the code makes on them; both are the empty          *)
(* sequence here.                                                          *)
(***************************************************************************)
EXTENDS Integers, Sequences, FiniteSets, TLC

\* ------------------------------------------------------------------ text

Quotes == {"\"", "'"}
Blanks == {" "}

StartsWith(s, p) == Len(s) >= Len(p) /\ SubSeq(s, 1, Len(p)) = p

EndsWith(s, p) == Len(s) >= Len(p) /\ SubSeq(s, Len(s) - Len(p) + 1, Len(s)) = p

Contains(s, p) == \E i \in 1..(Len(s) - Len(p) + 1) : SubSeq(s, i, i + Len(p) - 1) = p

HasToken(s, t) == \E i \in 1..Len(s) : s[i] = t

Drop(s, n) == SubSeq(s, n + 1, Len(s))

\* index of the first token of s at or after i that is in stop; Len(s)+1 if none
RunEnd(s, i, stop) ==
    CHOOSE j \in i..(Len(s) + 1) :
        /\ \A k \in i..(j - 1) : s[k] \notin stop
        /\ (j = Len(s) + 1 \/ s[j] \in stop)

\* index of the last token of s that is in set; 0 if none  (str.rfind)
LastIn(s, set) ==
    IF \E i \in 1..Len(s) : s[i] \in set
    THEN CHOOSE i \in 1..Len(s) : s[i] \in set /\ \A k \in (i + 1)..Len(s) : s[k] \notin set
    ELSE 0

\* index of the first token of s at or after i that is not in set; Len(s)+1 if none
SkipWhile(s, i, set) ==
    CHOOSE j \in i..(Len(s) + 1) :
        /\ \A k \in i..(j - 1) : s[k] \in set
        /\ (j = Len(s) + 1 \/ s[j] \notin set)

\* str.lstrip(chars)
LStrip(s, set) == Drop(s, SkipWhile(s, 1, set) - 1)

\* str.rstrip(chars)
RStrip(s, set) ==
    SubSeq(s, 1, CHOOSE j \in 0..Len(s) :
                    /\ \A k \in (j + 1)..Len(s) : s[k] \in set
                    /\ (j = 0 \/ s[j] \notin set))

\* str.strip(chars)
Strip(s, set) == LStrip(RStrip(s, set), set)

\* str.split(sep): the segments between the separators
RECURSIVE Split(_, _)
Split(s, sep) ==
    LET j == RunEnd(s, 1, {sep})
    IN  IF j > Len(s) THEN <<s>> ELSE <<SubSeq(s, 1, j - 1)>> \o Split(Drop(s, j), sep)

\* sep.join(segs)
RECURSIVE Join(_, _)
Join(segs, sep) ==
    IF Len(segs) = 0 THEN <<>>
    ELSE IF Len(segs) = 1 THEN segs[1]
    ELSE segs[1] \o <<sep>> \o Join(Tail(segs), sep)

\* str.lower(), on the tokens of the model that have upper-case letters
Lower(t) ==
    CASE t = "WWW.FACEBOOK.COM" -> "www.facebook.com"
      [] t = "Content-Type"     -> "content-type"
      [] t = "Content-Length"   -> "content-length"
      [] t = "Set-Cookie"       -> "set-cookie"
      [] t = "Location"         -> "location"
      [] t = "Cache-Control"    -> "cache-control"
      [] t = "X-Frame-Options"  -> "x-frame-options"
      [] t = "Expires"          -> "expires"
      [] OTHER                  -> t

LowerAll(s) == [i \in 1..Len(s) |-> Lower(s[i])]

\* re.sub(r'//+', '/', s)
RECURSIVE CollapseSlashes(_)
CollapseSlashes(s) ==
    IF Len(s) = 0 THEN <<>>
    ELSE IF s[1] = "/" THEN <<"/">> \o CollapseSlashes(Drop(s, SkipWhile(s, 1, {"/"}) - 1))
    ELSE <<s[1]>> \o CollapseSlashes(Tail(s))

\* ---------------------------------------------------- urllib and os.path

HTTP_PREFIX == <<"http:", "/", "/">>
HTTPS_PREFIX == <<"https:", "/", "/">>

\* urllib.parse.urlparse, for URLs without ';' parameters
urlparse(url) ==
    LET hasScheme == Len(url) > 0 /\ url[1] \in {"http:", "https:"}
        scheme    == IF hasScheme THEN <<url[1]>> ELSE <<>>
        r1        == IF hasScheme THEN Tail(url) ELSE url
        hasNet    == StartsWith(r1, <<"/", "/">>)
        netEnd    == IF hasNet THEN RunEnd(r1, 3, {"/", "?", "#"}) ELSE 1
        netloc    == IF hasNet THEN SubSeq(r1, 3, netEnd - 1) ELSE <<>>
        r2        == Drop(r1, netEnd - 1)
        fragAt    == RunEnd(r2, 1, {"#"})
        fragment  == Drop(r2, fragAt)
        r3        == SubSeq(r2, 1, fragAt - 1)
        queryAt   == RunEnd(r3, 1, {"?"})
    IN  [scheme |-> scheme, netloc |-> netloc, path |-> SubSeq(r3, 1, queryAt - 1),
         query |-> Drop(r3, queryAt), fragment |-> fragment]

\* os.path.dirname
dirname(p) ==
    LET head == SubSeq(p, 1, LastIn(p, {"/"}))
    IN  IF Len(head) > 0 /\ \E k \in 1..Len(head) : head[k] # "/"
        THEN RStrip(head, {"/"}) ELSE head

\* os.path.join(a, b)
pathjoin(a, b) ==
    IF StartsWith(b, <<"/">>) THEN b
    ELSE IF Len(a) = 0 \/ EndsWith(a, <<"/">>) THEN a \o b
    ELSE a \o <<"/">> \o b

IsDotDot(seg) == seg = <<"..">> \/ seg = <<".", ".">>

\* the component loop of os.path.normpath
RECURSIVE NormComps(_, _, _)
NormComps(comps, acc, rooted) ==
    IF Len(comps) = 0 THEN acc
    ELSE LET c == comps[1]
             rest == Tail(comps)
         IN  IF c = <<>> \/ c = <<".">> THEN NormComps(rest, acc, rooted)
             ELSE IF \/ ~IsDotDot(c)
                     \/ (~rooted /\ Len(acc) = 0)
                     \/ (Len(acc) > 0 /\ IsDotDot(acc[Len(acc)]))
                  THEN NormComps(rest, Append(acc, c), rooted)
             ELSE IF Len(acc) > 0 THEN NormComps(rest, SubSeq(acc, 1, Len(acc) - 1), rooted)
             ELSE NormComps(rest, acc, rooted)

\* os.path.normpath
normpath(p) ==
    IF Len(p) = 0 THEN <<".">>
    ELSE LET slashes == IF ~StartsWith(p, <<"/">>) THEN 0
                        ELSE IF StartsWith(p, <<"/", "/">>) /\ ~StartsWith(p, <<"/", "/", "/">>)
                             THEN 2 ELSE 1
             body == Join(NormComps(Split(p, "/"), <<>>, slashes > 0), "/")
             out  == (IF slashes = 2 THEN <<"/", "/">> ELSE IF slashes = 1 THEN <<"/">> ELSE <<>>)
                     \o body
         IN  IF Len(out) = 0 THEN <<".">> ELSE out

\* ------------------------------------------- mirror/transform_content.py

\* f"/{fiddle_name}/"
ProxyPrefix(fiddle_name) == <<"/">> \o fiddle_name \o <<"/">>

\* clean_path(path, fiddle_name, current_domain, accessed_dir)
clean_path(path0, fiddle_name, current_domain, accessed_dir) ==
    LET hasFiddle == Len(fiddle_name) > 0
        hasBoth   == hasFiddle /\ Len(current_domain) > 0
        path      == Strip(path0, Quotes)
        parsed    == urlparse(path)
        withQuery == parsed.path
                     \o (IF Len(parsed.query) > 0 THEN <<"?">> \o parsed.query ELSE <<>>)
                     \o (IF Len(parsed.fragment) > 0 THEN <<"#">> \o parsed.fragment ELSE <<>>)
        parts     == RunEnd(path, 3, {"/"})
        domain    == SubSeq(path, 3, parts - 1)
        path_part == IF parts <= Len(path) THEN Drop(path, parts - 1) ELSE <<"/">>
        full_path == normpath(pathjoin(accessed_dir, path))
    IN  IF Len(path0) = 0
        THEN (IF hasBoth THEN ProxyPrefix(fiddle_name) \o current_domain \o <<"/">> ELSE <<"/">>)
        ELSE IF StartsWith(path0, <<"data:">>) THEN path0
        ELSE IF hasFiddle /\ StartsWith(path, ProxyPrefix(fiddle_name)) THEN path
        ELSE IF StartsWith(path, HTTP_PREFIX) \/ StartsWith(path, HTTPS_PREFIX)
        THEN (IF hasFiddle THEN ProxyPrefix(fiddle_name) \o parsed.netloc \o withQuery ELSE path)
        ELSE IF StartsWith(path, <<"/", "/">>)
        THEN (IF hasFiddle THEN ProxyPrefix(fiddle_name) \o domain \o path_part ELSE path)
        ELSE IF StartsWith(path, <<"/">>)
        THEN (IF hasBoth
              THEN <<"/">> \o fiddle_name \o <<"/">> \o current_domain \o CollapseSlashes(path)
              ELSE path)
        ELSE IF Len(accessed_dir) > 0
        THEN (IF hasBoth
              THEN ProxyPrefix(fiddle_name) \o current_domain \o <<"/">> \o LStrip(full_path, {"/"})
              ELSE full_path)
        ELSE IF hasBoth
        THEN ProxyPrefix(fiddle_name) \o current_domain \o <<"/">> \o LStrip(path, {"/"})
        ELSE path

\* the character classes that end a reference in the four patterns
AttrStop   == Quotes \cup Blanks \cup {">"}
ImportStop == Quotes \cup Blanks \cup {";"}
UrlStop    == Quotes \cup {")"}

IsQuoteAt(c, i) == i <= Len(c) /\ c[i] \in Quotes

\* re.sub(name + r'(["\']?)([^"\'\s>]+)(["\']?)', ...) from position i on;
\* the text after the last occurrence of name stays as it is
RECURSIVE SubAttr(_, _, _, _, _, _)
SubAttr(c, i, name, fiddle_name, current_domain, accessed_dir) ==
    IF \A j \in i..Len(c) : c[j] # name THEN Drop(c, i - 1)
    ELSE LET s  == IF IsQuoteAt(c, i + 1) THEN i + 2 ELSE i + 1
             e  == IF s <= Len(c) THEN RunEnd(c, s, AttrStop) ELSE s
             e3 == IF IsQuoteAt(c, e) THEN e + 1 ELSE e
         IN  IF c[i] = name /\ e > s
             THEN SubSeq(c, i, s - 1)
                  \o clean_path(SubSeq(c, s, e - 1), fiddle_name, current_domain, accessed_dir)
                  \o SubSeq(c, e, e3 - 1)
                  \o SubAttr(c, e3, name, fiddle_name, current_domain, accessed_dir)
             ELSE <<c[i]>> \o SubAttr(c, i + 1, name, fiddle_name, current_domain, accessed_dir)

\* re.sub(r'(@import\s+["\']?)([^"\'\s;]+)(["\']?)', ...) from position i on
RECURSIVE SubImport(_, _, _, _, _)
SubImport(c, i, fiddle_name, current_domain, accessed_dir) ==
    IF \A j \in i..Len(c) : c[j] # "@import" THEN Drop(c, i - 1)
    ELSE LET b  == IF i + 1 <= Len(c) THEN SkipWhile(c, i + 1, Blanks) ELSE i + 1
             s  == IF IsQuoteAt(c, b) THEN b + 1 ELSE b
             e  == IF s <= Len(c) THEN RunEnd(c, s, ImportStop) ELSE s
             e3 == IF IsQuoteAt(c, e) THEN e + 1 ELSE e
         IN  IF c[i] = "@import" /\ b > i + 1 /\ e > s
             THEN SubSeq(c, i, s - 1)
                  \o clean_path(SubSeq(c, s, e - 1), fiddle_name, current_domain, accessed_dir)
                  \o SubSeq(c, e, e3 - 1)
                  \o SubImport(c, e3, fiddle_name, current_domain, accessed_dir)
             ELSE <<c[i]>> \o SubImport(c, i + 1, fiddle_name, current_domain, accessed_dir)

\* re.sub(r'url\((["\']?)([^"\'\)]+)(["\']?)\)', ...) from position i on
RECURSIVE SubUrl(_, _, _, _, _)
SubUrl(c, i, fiddle_name, current_domain, accessed_dir) ==
    IF \A j \in i..Len(c) : c[j] # "url(" THEN Drop(c, i - 1)
    ELSE LET s  == IF IsQuoteAt(c, i + 1) THEN i + 2 ELSE i + 1
             e  == IF s <= Len(c) THEN RunEnd(c, s, UrlStop) ELSE s
             e3 == IF IsQuoteAt(c, e) THEN e + 1 ELSE e
         IN  IF c[i] = "url(" /\ e > s /\ e3 <= Len(c) /\ c[e3] = ")"
             THEN SubSeq(c, i, s - 1)
                  \o clean_path(SubSeq(c, s, e - 1), fiddle_name, current_domain, accessed_dir)
                  \o SubSeq(c, e, e3)
                  \o SubUrl(c, e3 + 1, fiddle_name, current_domain, accessed_dir)
             ELSE <<c[i]>> \o SubUrl(c, i + 1, fiddle_name, current_domain, accessed_dir)

\* transform_content(content, fiddle_name, current_domain, accessed_dir):
\* the href, src, @import and url() passes, one after the other
transform_content(content, fiddle_name, current_domain, accessed_dir) ==
    LET c1 == SubAttr(content, 1, "href=", fiddle_name, current_domain, accessed_dir)
        c2 == SubAttr(c1, 1, "src=", fiddle_name, current_domain, accessed_dir)
        c3 == SubImport(c2, 1, fiddle_name, current_domain, accessed_dir)
    IN  SubUrl(c3, 1, fiddle_name, current_domain, accessed_dir)

\* TransformContent(base_url, accessed_url, content)
TransformContent(base_url, accessed_url, content) ==
    LET dir0 == dirname(urlparse(accessed_url).path)
        dir1 == IF EndsWith(dir0, <<"/">>) THEN dir0 ELSE dir0 \o <<"/">>
        accessed_dir == IF StartsWith(dir1, <<"/">>) THEN Tail(dir1) ELSE dir1
        cut  == RunEnd(base_url, 1, {"/"})
        rest == Drop(base_url, cut)
        fiddle_name    == IF HasToken(base_url, "/") THEN SubSeq(base_url, 1, cut - 1) ELSE <<>>
        current_domain == IF HasToken(base_url, "/")
                          THEN SubSeq(rest, 1, RunEnd(rest, 1, {"/"}) - 1)
                          ELSE base_url
    IN  transform_content(content, fiddle_name, current_domain, accessed_dir)

\* ------------------------------------------------------ blacklist.py

BLACKLISTED_URLS ==
    { <<"www.ebay.com", "/", "myb", "/", "SavedSellers">>,
      <<"signin.ebay.com", "/", "ws", "/", "eBayISAPI.dll", "/">>,
      <<"cgi4.ebay.com", "/", "ws">>,
      <<"my.ebay.com", "/", "ws">>,
      <<"reg.ebay.com", "/", "reg", "/", "PartialReg">>,
      <<"reg.ebay.com", "/", "reg", "/", "PartialReg", "?",
        "siteid=0&amp%3BUsingSSL=1&amp%3Bco_partnerId=2&amp%3Brv4=1">>,
      <<"reg.ebay.com", "/", "reg", "/", "PartialReg", "?",
        "siteid=0&UsingSSL=1&co_partnerId=2&rv4=1">>,
      <<"ocsnext.ebay.com", "/", "ocs", "/", "cuhome">>,
      <<"pages.ebay.com", "/", "sitemap.html">>,
      <<"cgi4.ebay.com", "/", "ws", "/", "eBayISAPI.dll", "?", "ChangeEmail">>,
      <<"my.ebay.com", "/", "ws", "/", "eBayISAPI.dll", "?", "MyeBay">>,
      <<"www.ebay.com", "/", "myb", "/", "Summary">>,
      <<"www.facebook.com">>,
      <<"www.facebook.com", "/", "login">>,
      <<"www.linkedin.com", "/", "in">>,
      <<"www.linkedin.com", "/", "in", "/", "cathy-foster-15108916">>,
      <<"www.linkedin.com">> }

\* ------------------------------------------------------ mirror/mirror.py

EXPIRATION_DELTA_SECONDS == 2592000

\* the hop-by-hop headers alone
HopByHopHeaders ==
    { "connection", "keep-alive", "proxy-authenticate", "proxy-authorization", "te",
      "trailers", "transfer-encoding", "upgrade" }

IGNORE_HEADERS ==
    { "set-cookie", "expires", "cache-control", "connection", "keep-alive",
      "proxy-authenticate", "proxy-authorization", "te", "trailers",
      "transfer-encoding", "upgrade", "x-frame-options", "content-security-policy",
      "x-xss-protection" }

TRANSFORMED_CONTENT_TYPES == { <<"text/html">>, <<"text/css">> }

None == [none |-> TRUE]

\* a dict: d[k] = v
DictPut(d, k, v) == [x \in (DOMAIN d) \cup {k} |-> IF x = k THEN v ELSE d[x]]

\* dict.pop(k, None)
DictPop(d, k) == [x \in (DOMAIN d) \ {k} |-> d[x]]

\* dict.get(k, "")
DictGet(d, k) == IF k \in DOMAIN d THEN d[k] ELSE <<>>

\* get_url_key_name(url): the tag and the digest; sha256 is taken to be
\* collision-free, so the digest stands for the text it was computed from
get_url_key_name(url) == [tag |-> "hash_", sha256 |-> url]

\* the rows of table mirrored_content with this key_name
RowsOf(rows, key_name) == {r \in rows : r.key_name = key_name}

\* a get that answers absent for an expired row and leaves the row
get_by_key_name_keep(rows, key_name, current_time) ==
    IF RowsOf(rows, key_name) = {} THEN [content |-> None, rows |-> rows]
    ELSE LET row == CHOOSE r \in RowsOf(rows, key_name) : TRUE
         IN  IF row.expiry < current_time
             THEN [content |-> None, rows |-> rows]
             ELSE [content |-> [original_address   |-> row.original_address,
                                translated_address |-> row.translated_address,
                                status             |-> row.status,
                                headers            |-> row.headers,
                                data               |-> row.data,
                                base_url           |-> row.base_url],
                   rows |-> rows]

\* a get whose expiry test is the wrong way round
get_by_key_name_reversed(rows, key_name, current_time) ==
    IF RowsOf(rows, key_name) = {} THEN [content |-> None, rows |-> rows]
    ELSE LET row == CHOOSE r \in RowsOf(rows, key_name) : TRUE
         IN  IF row.expiry > current_time
             THEN [content |-> None, rows |-> rows \ RowsOf(rows, key_name)]
             ELSE [content |-> [original_address   |-> row.original_address,
                                translated_address |-> row.translated_address,
                                status             |-> row.status,
                                headers            |-> row.headers,
                                data               |-> row.data,
                                base_url           |-> row.base_url],
                   rows |-> rows]

\* a get that answers every stored record with status 200
get_by_key_name_ok(rows, key_name, current_time) ==
    IF RowsOf(rows, key_name) = {} THEN [content |-> None, rows |-> rows]
    ELSE LET row == CHOOSE r \in RowsOf(rows, key_name) : TRUE
         IN  IF row.expiry < current_time
             THEN [content |-> None, rows |-> rows \ RowsOf(rows, key_name)]
             ELSE [content |-> [original_address   |-> row.original_address,
                                translated_address |-> row.translated_address,
                                status             |-> 200,
                                headers            |-> row.headers,
                                data               |-> row.data,
                                base_url           |-> row.base_url],
                   rows |-> rows]

\* a get that evicts every row written before current_time
get_by_key_name_evict_older(rows, key_name, current_time) ==
    IF RowsOf(rows, key_name) = {} THEN [content |-> None, rows |-> rows]
    ELSE LET row == CHOOSE r \in RowsOf(rows, key_name) : TRUE
         IN  IF row.expiry < current_time + EXPIRATION_DELTA_SECONDS
             THEN [content |-> None, rows |-> rows \ RowsOf(rows, key_name)]
             ELSE [content |-> [original_address   |-> row.original_address,
                                translated_address |-> row.translated_address,
                                status             |-> row.status,
                                headers            |-> row.headers,
                                data               |-> row.data,
                                base_url           |-> row.base_url],
                   rows |-> rows]

\* MirroredContent.get_by_key_name(key_name) at time current_time:
\* the content returned (or None) and the rows of the table afterwards
get_by_key_name(rows, key_name, current_time) ==
    IF RowsOf(rows, key_name) = {} THEN [content |-> None, rows |-> rows]
    ELSE LET row == CHOOSE r \in RowsOf(rows, key_name) : TRUE
         IN  IF row.expiry < current_time
             THEN [content |-> None, rows |-> rows \ RowsOf(rows, key_name)]
             ELSE [content |-> [original_address   |-> row.original_address,
                                translated_address |-> row.translated_address,
                                status             |-> row.status,
                                headers            |-> row.headers,
                                data               |-> row.data,
                                base_url           |-> row.base_url],
                   rows |-> rows]

\* INSERT OR IGNORE: the row already there stays
InsertOrIgnore(rows, key_name, new_content, current_time) ==
    IF RowsOf(rows, key_name) # {} THEN rows
    ELSE rows \cup { [key_name           |-> key_name,
                      original_address   |-> new_content.original_address,
                      translated_address |-> new_content.translated_address,
                      status             |-> new_content.status,
                      headers            |-> new_content.headers,
                      data               |-> new_content.data,
                      base_url           |-> new_content.base_url,
                      expiry             |-> current_time + EXPIRATION_DELTA_SECONDS] }

\* INSERT into a table without the primary key: the old row stays too
InsertOnly(rows, key_name, new_content, current_time) ==
    rows \cup { [key_name           |-> key_name,
                 original_address   |-> new_content.original_address,
                 translated_address |-> new_content.translated_address,
                 status             |-> new_content.status,
                 headers            |-> new_content.headers,
                 data               |-> new_content.data,
                 base_url           |-> new_content.base_url,
                 expiry             |-> current_time + EXPIRATION_DELTA_SECONDS] }

\* INSERT OR REPLACE INTO mirrored_content ... at time current_time
InsertOrReplace(rows, key_name, new_content, current_time) ==
    (rows \ RowsOf(rows, key_name))
    \cup { [key_name           |-> key_name,
            original_address   |-> new_content.original_address,
            translated_address |-> new_content.translated_address,
            status             |-> new_content.status,
            headers            |-> new_content.headers,
            data               |-> new_content.data,
            base_url           |-> new_content.base_url,
            expiry             |-> current_time + EXPIRATION_DELTA_SECONDS] }

\* the header loop of fetch_and_store
RECURSIVE AdjustHeaders(_, _, _)
AdjustHeaders(hs, base_url, acc) ==
    IF Len(hs) = 0 THEN acc
    ELSE LET key    == Lower(hs[1][1])
             value  == hs[1][2]
             parsed == urlparse(value)
             adjusted_value ==
                 <<"/">> \o base_url \o parsed.path
                 \o (IF Len(parsed.query) > 0 THEN <<"?">> \o parsed.query ELSE <<>>)
         IN  IF key = "location"
             THEN AdjustHeaders(Tail(hs), base_url, DictPut(acc, "location", adjusted_value))
             ELSE IF key \notin IGNORE_HEADERS
             THEN AdjustHeaders(Tail(hs), base_url, DictPut(acc, key, value))
             ELSE AdjustHeaders(Tail(hs), base_url, acc)

IsTransformed(content_type) == \E t \in TRANSFORMED_CONTENT_TYPES : StartsWith(content_type, t)

\* fetch_and_store, "Prevent proxy path duplication": the translated address
\* and the base url after the final URL's path has been looked at
Rebase(base_url, translated_address, final_path) ==
    IF StartsWith(final_path, <<"/">> \o base_url)
    THEN [translated_address |-> LStrip(final_path, {"/"}), base_url |-> Split(base_url, "/")[1]]
    ELSE [translated_address |-> translated_address, base_url |-> base_url]

\* fetch_and_store: the body is transformed when its content-type says so,
\* and the MirroredContent is built
MirroredContent(mirrored_url, response, translated_address, base_url, adjusted_headers) ==
    [original_address   |-> mirrored_url,
     translated_address |-> translated_address,
     status             |-> response.status_code,
     headers            |-> adjusted_headers,
     data               |-> IF IsTransformed(DictGet(adjusted_headers, "content-type"))
                            THEN TransformContent(base_url, mirrored_url, response.content)
                            ELSE response.content,
     base_url           |-> base_url]

NewContentIn(mirrored_url, response, ctx) ==
    MirroredContent(mirrored_url, response, ctx.translated_address, ctx.base_url,
                    AdjustHeaders(response.headers, ctx.base_url, <<>>))

\* MirroredContent.fetch_and_store after the awaited client.get has answered
\* with response: the MirroredContent built from it
NewContent(base_url, translated_address, mirrored_url, response) ==
    NewContentIn(mirrored_url, response,
                 Rebase(base_url, translated_address, urlparse(response.url).path))

\* an insert whose failure is not contained: nothing is returned
StoreOrNothing(rows, key_name, new_content, insert_ok, current_time) ==
    IF insert_ok
    THEN [content |-> new_content,
          rows    |-> InsertOrReplace(rows, key_name, new_content, current_time),
          put     |-> TRUE]
    ELSE [content |-> None, rows |-> rows, put |-> FALSE]

\* fetch_and_store: the insert (insert_ok is FALSE when sqlite raises, which
\* is logged) and the return of new_content
Store(rows, key_name, new_content, insert_ok, current_time) ==
    [content |-> new_content,
     rows    |-> IF insert_ok
                 THEN InsertOrReplace(rows, key_name, new_content, current_time)
                 ELSE rows,
     put     |-> insert_ok]

\* a fetch_and_store that drops the record of the key when the fetch fails
fetch_and_store_drop(rows, key_name, base_url, translated_address, mirrored_url, outcome, insert_ok, current_time) ==
    IF outcome = None
    THEN [content |-> None, rows |-> rows \ RowsOf(rows, key_name), put |-> FALSE]
    ELSE Store(rows, key_name, NewContent(base_url, translated_address, mirrored_url, outcome),
               insert_ok, current_time)

\* MirroredContent.fetch_and_store(key_name, base_url, translated_address, mirrored_url)
\* from the answer of the fetch on: outcome is the response, or None for an
\* httpx.HTTPError
fetch_and_store(rows, key_name, base_url, translated_address, mirrored_url, outcome, insert_ok, current_time) ==
    IF outcome = None THEN [content |-> None, rows |-> rows, put |-> FALSE]
    ELSE Store(rows, key_name, NewContent(base_url, translated_address, mirrored_url, outcome),
               insert_ok, current_time)

\* ------------------------------------------------------------ models.py

\* default_fiddle (id, title, script and style; the other columns play no
\* part in the proxy pipeline)
default_fiddle ==
    [id |-> <<"d8c4vu">>, title |-> "cats", script |-> <<"CATS_JS">>, style |-> <<"CATS_CSS">>]

\* Fiddle.byId(fiddle_id) on the rows of table fiddles
byId(fiddles, fiddle_id) ==
    IF \E f \in fiddles : f.id = fiddle_id
    THEN CHOOSE f \in fiddles : f.id = fiddle_id
    ELSE None

\* Fiddle.byUrlKey(urlkey)
byUrlKey(fiddles, urlkey) ==
    IF Len(urlkey) = 0 \/ EndsWith(urlkey, <<"d8c4vu">>) THEN default_fiddle
    ELSE IF LastIn(urlkey, {"-"}) = 0 THEN None
    ELSE byId(fiddles, Drop(urlkey, LastIn(urlkey, {"-"})))

\* Fiddle.save(obj): UPDATE the row with this id, or INSERT it
save(fiddles, obj) == {f \in fiddles : f.id # obj.id} \cup {obj}

\* --------------------------------------------- mirror/mirror.py: the route

\* the script proxy_route formats with (fiddle_name, domain)
request_blocker(fiddle_name, domain) ==
    <<"<script>", "proxyBase='", "/">> \o fiddle_name \o <<"/", "'", "currentDomain='">>
    \o domain \o <<"'", "</script>">>

\* str.find(token): 0-based position, -1 when absent
Find(s, t) == IF HasToken(s, t) THEN RunEnd(s, 1, {t}) - 1 ELSE -1

\* a handler that lets an HTTPException through with the status it was
\* raised with
RaisedThrough(e) ==
    [status  |-> CASE e = "400: Invalid fiddle name" -> 400
                   [] e = "403: Access to this URL is not allowed" -> 403
                   [] OTHER -> 404,
     headers |-> <<>>, body |-> <<"detail", e>>]

\* proxy_route's handler: except Exception as e, raise
\* HTTPException(status_code=500, detail=str(e))
Raised(e) == [status |-> 500, headers |-> <<>>, body |-> <<"detail", e>>]

\* content_with_script: the script goes in before </head>, else before
\* <body, else at position 0
Inject(transformed, script) ==
    LET atHead == Find(transformed, "</head>")
        atBody == Find(transformed, "<body")
        insert_pos == IF atHead # -1 THEN atHead ELSE IF atBody # -1 THEN atBody ELSE 0
    IN  SubSeq(transformed, 1, insert_pos) \o script \o Drop(transformed, insert_pos)

\* an overlay of the script block alone
OverlayScriptOnly(fiddle) ==
    IF fiddle = None THEN <<>>
    ELSE <<"<script id=\"webfiddle-js\">">> \o fiddle.script \o <<"</script>">>

\* extra_js + extra_css when the fiddle exists
Overlay(fiddle) ==
    IF fiddle = None THEN <<>>
    ELSE <<"<script id=\"webfiddle-js\">">> \o fiddle.script \o <<"</script>">>
         \o <<"<style id=\"webfiddle-css\">">> \o fiddle.style \o <<"</style>">>

\* HTMLResponse(content=..., status_code=..., headers=...): the response
\* class fills in content-length and content-type when headers has none
HTMLResponse(content, status_code, headers) ==
    [status  |-> status_code,
     headers |-> [h \in (DOMAIN headers) \cup {"content-length", "content-type"} |->
                     IF h \in DOMAIN headers THEN headers[h]
                     ELSE IF h = "content-length" THEN <<Len(content)>>
                     ELSE <<"text/html">>],
     body    |-> content]

\* proxy_route from "Prepare response headers" on: the response for content
Respond(content, fiddle_name, domain, fiddles) ==
    LET headers == DictPut(content.headers, "cache-control",
                           <<"max-age=", EXPIRATION_DELTA_SECONDS>>)
    IN  IF StartsWith(DictGet(content.headers, "content-type"), <<"text/html">>)
        THEN HTMLResponse(Inject(transform_content(content.data, fiddle_name, domain, <<>>),
                                 request_blocker(fiddle_name, domain))
                          \o Overlay(byUrlKey(fiddles, fiddle_name)),
                          content.status,
                          DictPop(DictPop(headers, "content-length"), "content-encoding"))
        ELSE HTMLResponse(content.data, content.status, headers)

\* a validation that only asks for a name
ValidFiddleNameAny(fiddle_name) == Len(fiddle_name) > 0

\* '-' in fiddle_name
ValidFiddleName(fiddle_name) == HasToken(fiddle_name, "-")

\* a denylist test of the mirrored URL instead of the domain
BlockedUrl(domain) == (<<"http:", "/", "/">> \o domain) \in BLACKLISTED_URLS

\* domain in BLACKLISTED_URLS
Blocked(domain) == domain \in BLACKLISTED_URLS

\* a favicon test that asks for the path favicon.ico itself
IsFaviconItself(path) == path = <<"favicon.ico">>

\* path.endswith("favicon.ico")
IsFavicon(path) == EndsWith(path, <<"favicon.ico">>)

\* proxy_route once domain is computed; got is what get_by_key_name gives
\* when it returns, read_error the message of the sqlite3.Error it raises
\* when it does not (<<>> when it returns)
Route(fiddle_name, path, user_agent, read_error, rows, fiddles, domain, got) ==
    IF HasToken(user_agent, "AppEngine-Google")
    THEN [await |-> FALSE, response |-> Raised("404: Not Found"), rows |-> rows,
          steps |-> <<>>, got |-> None, error |-> <<>>]
    ELSE IF ~ValidFiddleName(fiddle_name)
    THEN [await |-> FALSE, response |-> Raised("400: Invalid fiddle name"), rows |-> rows,
          steps |-> <<>>, got |-> None, error |-> <<>>]
    ELSE IF IsFavicon(path)
    THEN [await |-> FALSE,
          response |-> [status |-> 302,
                        headers |-> [h \in {"location"} |-> <<"/", "static", "/", "favicon.ico">>],
                        body |-> <<>>],
          rows |-> rows, steps |-> <<>>, got |-> None, error |-> <<>>]
    ELSE IF Blocked(domain)
    THEN [await |-> FALSE, response |-> Raised("403: Access to this URL is not allowed"),
          rows |-> rows, steps |-> <<>>, got |-> None, error |-> <<>>]
    ELSE IF read_error # <<>>
    THEN [await |-> FALSE, response |-> Raised(read_error[1]), rows |-> rows,
          steps |-> <<"cache_get_failed">>, got |-> None, error |-> read_error]
    ELSE IF got.content = None
    THEN [await |-> TRUE, response |-> None, rows |-> got.rows,
          steps |-> <<"cache_get", "fetch">>, got |-> None, error |-> <<>>]
    ELSE [await |-> FALSE,
          response |-> Respond(got.content, fiddle_name, domain, fiddles),
          rows |-> got.rows, steps |-> <<"cache_get">>, got |-> got.content,
          error |-> <<>>]

\* proxy_route(request, fiddle_name, path) up to its first suspension (the
\* awaited fetch) or, when it gets that far, to its response.  steps lists
\* the storage and network operations performed, in order.
proxy_route(fiddle_name, path, user_agent, read_error, rows, current_time, fiddles) ==
    Route(fiddle_name, path, user_agent, read_error, rows, fiddles,
          LowerAll(Split(path, "/")[1]),
          get_by_key_name(rows, get_url_key_name(HTTP_PREFIX \o path), current_time))

\* proxy_route after fetch_and_store has returned stored
Resume(fiddle_name, domain, fiddles, stored) ==
    IF stored.content = None
    THEN [response |-> Raised("404: Not Found"), rows |-> stored.rows, steps |-> <<>>,
          content |-> None]
    ELSE [response |-> Respond(stored.content, fiddle_name, domain, fiddles),
          rows |-> stored.rows,
          steps |-> IF stored.put THEN <<"cache_put">> ELSE <<>>,
          content |-> stored.content]

\* proxy_route from the answer of the awaited fetch on
proxy_route_resume(fiddle_name, path, outcome, insert_ok, rows, current_time, fiddles) ==
    Resume(fiddle_name, LowerAll(Split(path, "/")[1]), fiddles,
           fetch_and_store(rows, get_url_key_name(HTTP_PREFIX \o path),
                           fiddle_name \o <<"/">> \o LowerAll(Split(path, "/")[1]),
                           path, HTTP_PREFIX \o path, outcome, insert_ok, current_time))

\* ------------------------------------------------- the inputs, bounded

MaxTicks == 1

Cats == <<"cats", "-", "d8c4vu">>

Mozilla == <<"Mozilla">>

PagePath == <<"d.com", "/", "a", "/", "p.html">>

\* a target whose path already carries the proxy prefix of session cats-d8c4vu
NestedPath == <<"d.com", "/", "cats", "-", "d8c4vu", "/", "d.com", "/", "p.html">>

\* what the read of cache.db does: it returns (<<>>), or sqlite3 raises an
\* error with one of these messages
ReadErrors == { <<>>, <<"database is locked">>, <<"unable to open database file">> }

\* the requests that arrive: path parameters fiddle_name and path, the
\* User-Agent header, and what the read of cache.db does if the request
\* gets to it
Requests ==
    { [fiddle_name |-> Cats, path |-> PagePath, user_agent |-> Mozilla, read_error |-> e] :
          e \in ReadErrors }
    \cup
    { [fiddle_name |-> <<"test", "-", "abc123">>, path |-> PagePath, user_agent |-> Mozilla,
       read_error |-> <<>>],
      [fiddle_name |-> Cats, path |-> NestedPath, user_agent |-> Mozilla, read_error |-> <<>>],
      [fiddle_name |-> Cats, path |-> <<"d.com", "/", "favicon.ico">>, user_agent |-> Mozilla,
       read_error |-> <<>>],
      [fiddle_name |-> Cats, path |-> <<"WWW.FACEBOOK.COM", "/", "favicon.ico">>,
       user_agent |-> Mozilla, read_error |-> <<>>],
      [fiddle_name |-> Cats, path |-> <<"WWW.FACEBOOK.COM", "/", "login">>,
       user_agent |-> Mozilla, read_error |-> <<>>],
      [fiddle_name |-> <<"invalidfiddle">>, path |-> PagePath, user_agent |-> Mozilla,
       read_error |-> <<>>],
      [fiddle_name |-> Cats, path |-> PagePath, user_agent |-> <<"AppEngine-Google">>,
       read_error |-> <<>>] }

HtmlBody ==
    <<"<head>", "<script src=o.js>", "</script>", "</head>",
      "<a", " ", "href=", "\"", "x.png", "\"", ">">>

HtmlHeaders ==
    << <<"Content-Type", <<"text/html">>>>, <<"Set-Cookie", <<"sid=1">>>>,
       <<"Cache-Control", <<"no-store">>>>, <<"X-Frame-Options", <<"DENY">>>>,
       <<"Content-Length", <<Len(HtmlBody)>>>> >>

CssBody == <<"a{b:", "url(", "x.png", ")", "}">>

CssHeaders ==
    << <<"Content-Type", <<"text/css">>>>, <<"Expires", <<"0">>>>,
       <<"Content-Length", <<Len(CssBody)>>>> >>

\* what the awaited client.get can answer for mirrored_url: an
\* httpx.HTTPError (None), the page itself, or the page a redirect led to
OriginOutcomes(mirrored_url) ==
    { None,
      [url |-> mirrored_url, status_code |-> 200, headers |-> HtmlHeaders, content |-> HtmlBody] }
    \cup (IF mirrored_url = HTTP_PREFIX \o PagePath
          THEN { [url |-> HTTP_PREFIX \o <<"d.com", "/", "home", "/">>, status_code |-> 200,
                  headers |-> HtmlHeaders, content |-> HtmlBody] }
          ELSE {})

Scripts == { <<"alert(1)">> }

\* ------------------------------------------------------------- the state

VARIABLES
    now,        \* int(time.time())
    ticks,      \* how often the clock has advanced
    cache,      \* the rows of table mirrored_content (cache.db)
    fiddles,    \* the rows of table fiddles (users.db)
    inflight,   \* the proxy_route calls suspended at the awaited fetch
    commits,    \* per key_name, the insert that committed last
    obs,        \* what the latest step of a proxy_route call did and answered
    doc,        \* a document given to the rewriter, and what became of it
    users,      \* the rows of table users (users.db)
    session     \* request.session of the one browser, a dict

vars == <<now, ticks, cache, fiddles, inflight, commits, obs, doc, users, session>>

Init ==
    /\ now = 0
    /\ ticks = 0
    /\ cache = {}
    /\ fiddles = {}
    /\ inflight = {}
    /\ commits = {}
    /\ obs = None
    /\ users = {}
    /\ session = <<>>
    /\ doc = None

KeyOf(path) == get_url_key_name(HTTP_PREFIX \o path)

\* the state after proxy_route has run, for a new request with the query
\* string query, as far as r says; the route gets fiddle_name and path, the
\* query string stays in request.url, which proxy_route does not read
Started(fiddle_name, path, query, user_agent, r) ==
    /\ cache' = r.rows
    /\ inflight' = IF r.await
                   THEN inflight \cup {[fiddle_name |-> fiddle_name, path |-> path]}
                   ELSE inflight
    /\ obs' = [kind |-> "start", fiddle_name |-> fiddle_name, path |-> path,
               query |-> query, user_agent |-> user_agent, at |-> now, steps |-> r.steps,
               seen |-> RowsOf(cache, KeyOf(path)),
               after |-> RowsOf(r.rows, KeyOf(path)),
               content |-> r.got, outcome |-> None, error |-> r.error,
               response |-> r.response]
    /\ UNCHANGED <<now, ticks, fiddles, commits, doc, users, session>>

\* a request arrives: proxy_route runs to its response or to the awaited fetch
StartRequest ==
    \E rq \in Requests :
        /\ [fiddle_name |-> rq.fiddle_name, path |-> rq.path] \notin inflight
        /\ Started(rq.fiddle_name, rq.path, <<>>, rq.user_agent,
                   proxy_route(rq.fiddle_name, rq.path, rq.user_agent, rq.read_error, cache,
                               now, fiddles))

\* the state after the suspended call req has run to its response r
Resumed(req, outcome, r) ==
    /\ inflight' = inflight \ {req}
    /\ cache' = r.rows
    /\ obs' = [kind |-> "resume", fiddle_name |-> req.fiddle_name,
               path |-> req.path, user_agent |-> Mozilla, at |-> now,
               steps |-> <<"cache_get", "fetch">> \o r.steps,
               seen |-> RowsOf(cache, KeyOf(req.path)),
               after |-> RowsOf(r.rows, KeyOf(req.path)),
               content |-> r.content, outcome |-> outcome, error |-> <<>>,
               response |-> r.response]
    /\ commits' = IF HasToken(r.steps, "cache_put")
                  THEN {c \in commits : c.key_name # KeyOf(req.path)}
                       \cup {[key_name |-> KeyOf(req.path), content |-> r.content,
                              at |-> now]}
                  ELSE commits
    /\ UNCHANGED <<now, ticks, fiddles, doc, users, session>>

\* the awaited fetch of a suspended call answers: fetch_and_store finishes
\* and proxy_route returns its response
FetchReturn ==
    \E req \in inflight, insert_ok \in BOOLEAN :
        \E outcome \in OriginOutcomes(HTTP_PREFIX \o req.path) :
            Resumed(req, outcome,
                    proxy_route_resume(req.fiddle_name, req.path, outcome, insert_ok, cache,
                                       now, fiddles))

\* time passes: a second, or a second more than the lifetime of a cache entry
Tick ==
    \E d \in {1, EXPIRATION_DELTA_SECONDS + 1} :
        /\ ticks < MaxTicks
        /\ ticks' = ticks + 1
        /\ now' = now + d
        /\ obs' = None
        /\ UNCHANGED <<cache, fiddles, inflight, commits, doc, users, session>>

\* create_fiddle_handler: Fiddle.save of the submitted fiddle
CreateFiddle ==
    \E script \in Scripts :
        /\ fiddles' = save(fiddles, [id |-> <<"abc123">>, title |-> "t", script |-> script,
                                     style |-> <<"body{}">>])
        /\ fiddles' # fiddles
        /\ obs' = None
        /\ UNCHANGED <<now, ticks, cache, inflight, commits, doc, users, session>>

Next == StartRequest \/ FetchReturn \/ Tick \/ CreateFiddle

Spec == Init /\ [][Next]_vars

\* ------------------------------------------------ the rewriter on its own

MaxPasses == 2

\* base contexts: with a session id, and without one
BaseUrls == { Cats \o <<"/", "d.com">>, <<"d.com">> }

\* the syntactic contexts a reference stands in: the attributes href, src
\* and action, src with blanks around '=', and the CSS forms @import,
\* @import url() and url()
Attrs == { "href=", "src=", "action=", "src =", "@import", "@import url(", "url(" }

RefQuotes == { <<"\"">>, <<"'">>, <<>> }

\* the pages the documents are accessed at
AccessedUrls ==
    { HTTP_PREFIX \o PagePath,
      HTTP_PREFIX \o <<"d.com", "/", "p.html">>,
      HTTP_PREFIX \o <<"d.com", "/", "foo", "/", "is", "/", "the", "/", "path.html">> }

\* the references a document carries
Refs ==
    { <<"http:", "/", "/", "h.com", "/", "p", "/", "a.js", "?", "q=1", "#", "f">>,
      <<"https:", "/", "/", "h.com", "/", "p", "/", "a.js", "?", "q=1", "#", "f">>,
      <<"/", "/", "h.com", "/", "p", "/", "a.js">>,
      <<"/", "/", "href=">>,
      <<"/">>,
      <<"/", "i.png">>,
      <<"/", "p", "/", "a.js", "?", "q=1", "#", "f">>,
      <<"/", "search", "?", "u=", "http:", "/", "/", "x.com", "/", "y">>,
      <<"/", "cats", "-", "d8c4vu", "/", "d.com", "/", "x.png">>,
      <<"x.png">>,
      <<"..", "/", "x.png">>,
      <<".", "/", "x.png">>,
      <<"..", "/", "layout", "/", "x.png">>,
      <<"/", "/", "path", "/", "/", "to", "/", "/", "resource">>,
      <<"/", "a", "/", "/", "b.png">>,
      <<"data:", "abc">>,
      <<"data:", "a{b:", "url(", "x.png", ")", "}">> }

\* the text a context puts before the reference and its quote
Opening(attr) ==
    CASE attr = "@import"      -> <<"@import", " ">>
      [] attr = "@import url(" -> <<"@import", " ", "url(">>
      [] attr = "url("         -> <<"a{b:", "url(">>
      [] attr = "src ="        -> <<"<a", " ", "src", " ", "=", " ">>
      [] OTHER                 -> <<"<a", " ", attr>>

\* the text a context puts after the reference and its quote
Closing(attr) ==
    CASE attr = "@import"                -> <<";">>
      [] attr \in {"@import url(", "url("} -> <<")">>
      [] OTHER                           -> <<">">>

\* a tag or a CSS statement with one reference
Markup(attr, quote, ref) == Opening(attr) \o quote \o ref \o quote \o Closing(attr)

\* the session id and the domain of a base context "session/domain"
SessionOf(base_url) == SubSeq(base_url, 1, RunEnd(base_url, 1, {"/"}) - 1)
DomainOf(base_url) == Drop(base_url, RunEnd(base_url, 1, {"/"}))

RewriteInit ==
    /\ now = 0
    /\ ticks = 0
    /\ cache = {}
    /\ fiddles = {}
    /\ inflight = {}
    /\ commits = {}
    /\ obs = None
    /\ users = {}
    /\ session = <<>>
    /\ doc \in { [base_url |-> b, accessed_url |-> u, attr |-> a,
                  quote |-> q, ref |-> r, text |-> Markup(a, q, r), once |-> <<>>,
                  page |-> <<>>, passes |-> 0] :
                 b \in BaseUrls, u \in AccessedUrls, a \in Attrs, q \in RefQuotes,
                 r \in Refs }

\* fetch_and_store's pass: TransformContent(base_url, mirrored_url, content)
Rewrite ==
    /\ doc.passes < MaxPasses
    /\ doc' = [doc EXCEPT !.text = TransformContent(doc.base_url, doc.accessed_url, doc.text),
                          !.once = IF doc.passes = 0
                                   THEN TransformContent(doc.base_url, doc.accessed_url, doc.text)
                                   ELSE doc.once,
                          !.passes = doc.passes + 1]
    /\ UNCHANGED <<now, ticks, cache, fiddles, inflight, commits, obs, users, session>>

\* proxy_route's pass over the stored text when it builds the response:
\* transform_content(content_str, fiddle_name, domain)
Render ==
    /\ doc.passes >= 1
    /\ doc.page = <<>>
    /\ HasToken(doc.base_url, "/")
    /\ doc' = [doc EXCEPT !.page = transform_content(doc.text, SessionOf(doc.base_url),
                                                     DomainOf(doc.base_url), <<>>)]
    /\ UNCHANGED <<now, ticks, cache, fiddles, inflight, commits, obs, users, session>>

RewriteNext == Rewrite \/ Render

RewriteSpec == RewriteInit /\ [][RewriteNext]_vars

\* ------------------------------- one call at a time, many origin answers

\* a page without <head>, and a fragment with neither <head> nor <body
BodyOnly ==
    <<"<!DOCTYPE html>", "<body", ">", "<script src=o.js>", "</script>",
      "<a", " ", "href=", "x.png", ">">>

Bare == <<"<a", " ", "href=", "x.png", ">">>

PngBody == <<"PNG">>

\* the headers of an origin answer of this content type and body
HeadersFor(content_type, content) ==
    << <<"Content-Type", content_type>>, <<"Set-Cookie", <<"sid=1">>>>,
       <<"Cache-Control", <<"no-store">>>>, <<"X-Frame-Options", <<"DENY">>>>,
       <<"Expires", <<"0">>>>, <<"Content-Length", <<Len(content)>>>> >>

\* what the origin can answer for mirrored_url
OriginAnswers(mirrored_url) ==
    { [url |-> mirrored_url, status_code |-> st, headers |-> HeadersFor(<<"text/html">>, b),
       content |-> b] : st \in {200, 404}, b \in {HtmlBody, BodyOnly, Bare} }
    \cup { [url |-> mirrored_url, status_code |-> 200, headers |-> CssHeaders,
            content |-> CssBody],
           [url |-> mirrored_url, status_code |-> 200,
            headers |-> HeadersFor(<<"image/png">>, PngBody), content |-> PngBody] }

\* the url query parameter of GET /: absent, with a scheme, without one
HomeUrls ==
    { <<>>, HTTP_PREFIX \o <<"example.com">>, <<"example.com", "/", "a", "?", "q=1">> }

\* main.py, main_handler: the landing page
main_handler ==
    [status |-> 200, headers |-> [h \in {"content-type"} |-> <<"text/html">>],
     body |-> <<"templates/index.jinja2">>]

\* mirror.py, home_route: with a url it creates a Fiddle and calls
\* fiddle.put(), which class Fiddle does not have; the AttributeError is
\* caught and answered with HTTPException(500, "Internal server error")
home_route(url, user_agent) ==
    IF HasToken(user_agent, "AppEngine-Google")
    THEN [status |-> 404, headers |-> <<>>, body |-> <<"detail", "Not Found">>]
    ELSE IF Len(url) > 0
    THEN [status |-> 500, headers |-> <<>>, body |-> <<"detail", "Internal server error">>]
    ELSE [status |-> 200, headers |-> [h \in {"content-type"} |-> <<"text/html">>],
          body |-> <<"index.html">>]

\* the handlers of GET / in the order the application registers them:
\* @app.get("/") of main.py, then the router of mirror.py
RootRoutes == <<"main_handler", "home_route">>

\* GET /?url=...: the first registered route that matches answers
GetRoot(url, user_agent) ==
    IF RootRoutes[1] = "main_handler" THEN main_handler ELSE home_route(url, user_agent)

\* the query string of a request: none, and two that differ
Queries == { <<>>, <<"q=1">>, <<"q=2">> }

\* the targets asked for: a page, and a denylist entry that is a domain
\* followed by a path
ServePaths == { PagePath, <<"www.ebay.com", "/", "myb", "/", "SavedSellers">> }

\* the call followed, and what the origin answers it
ServeInit ==
    /\ now = 0
    /\ ticks = 0
    /\ cache = {}
    /\ fiddles = {}
    /\ inflight = {}
    /\ commits = {}
    /\ obs = None
    /\ users = {}
    /\ session = <<>>
    /\ doc \in UNION { { [fiddle_name |-> f, path |-> p, outcome |-> o] :
                           f \in {Cats, <<"test", "-", "abc123">>},
                           o \in OriginAnswers(HTTP_PREFIX \o p) } : p \in ServePaths }

\* the request arrives (again): proxy_route runs to its response or to the
\* awaited fetch
ServeStart ==
    \E query \in Queries :
        /\ [fiddle_name |-> doc.fiddle_name, path |-> doc.path] \notin inflight
        /\ Started(doc.fiddle_name, doc.path, query, Mozilla,
                   proxy_route(doc.fiddle_name, doc.path, Mozilla, <<>>, cache, now, fiddles))

\* the origin answers the awaited fetch
ServeFetch ==
    \E req \in inflight, insert_ok \in BOOLEAN :
        Resumed(req, doc.outcome,
                proxy_route_resume(req.fiddle_name, req.path, doc.outcome, insert_ok, cache,
                                   now, fiddles))

\* GET / with a url query parameter
HomeRequest ==
    \E url \in HomeUrls :
        /\ obs' = [kind |-> "home", url |-> url, user_agent |-> Mozilla,
                   response |-> GetRoot(url, Mozilla)]
        /\ UNCHANGED <<now, ticks, cache, fiddles, inflight, commits, doc, users, session>>

ServeNext == ServeStart \/ ServeFetch \/ CreateFiddle \/ HomeRequest

ServeSpec == ServeInit /\ [][ServeNext]_vars

\* ------------------------------------ the accounts and the session store

\* bcrypt.hashpw(password, salt): the salt and the digest; bcrypt is taken
\* to be collision-free, so the digest stands for the password it was
\* computed from (passwords here are shorter than bcrypt's 72 bytes)
hashpw(password, salt) == [salt |-> salt, digest |-> password]

\* bcrypt.checkpw(password, hashed_password): hash again with the salt of
\* the stored hash and compare
checkpw(password, hashed_password) ==
    hashpw(password, hashed_password.salt) = hashed_password

\* RedirectResponse(url, status_code=...)
RedirectResponse(url, status_code) ==
    [status |-> status_code, headers |-> [h \in {"location"} |-> url], body |-> <<>>]

\* main.py, login: what it leaves in the session and what it answers
login(rows, sess, username, password) ==
    LET row == {u \in rows : u.username = username}
    IN  IF row # {} /\ checkpw(password, (CHOOSE u \in row : TRUE).password_hash)
        THEN [session |-> DictPut(sess, "user", username),
              response |-> RedirectResponse(<<"/">>, 302)]
        ELSE [session |-> sess,
              response |-> HTMLResponse(<<"Invalid credentials">>, 400, <<>>)]

\* main.py, register: the INSERT fails on the UNIQUE username
register(rows, sess, username, hashed) ==
    IF \E u \in rows : u.username = username
    THEN [users |-> rows, session |-> sess,
          response |-> HTMLResponse(<<"User already exists">>, 400, <<>>)]
    ELSE [users |-> rows \cup {[username |-> username, password_hash |-> hashed]},
          session |-> DictPut(sess, "user", username),
          response |-> RedirectResponse(<<"/">>, 302)]

\* main.py, logout: request.session.clear()
logout(sess) == [session |-> <<>>, response |-> RedirectResponse(<<"/">>, 302)]

\* main.py, get_fiddle_handler: the page of the fiddle of the key, or of the
\* default fiddle; the session is not touched
get_fiddle_handler(rows, sess, fiddlekey) ==
    LET current_fiddle == IF byUrlKey(rows, fiddlekey) = None THEN default_fiddle
                          ELSE byUrlKey(rows, fiddlekey)
    IN  [session |-> sess,
         response |-> [status |-> 200,
                       headers |-> [h \in {"content-type"} |-> <<"text/html">>],
                       body |-> <<"templates/index.jinja2">> \o current_fiddle.id]]

\* the GET routes of main.py, in the order the application registers them
GetRoutes ==
    << <<"/", "favicon.ico">>, <<"/", "bingsiteauth.xml">>, <<"/">>,
       <<"/", "_ah", "/", "warmup">>,
       <<"/", "createfiddle">>, <<"/", "{fiddlekey}">>, <<"/", "login">>,
       <<"/", "register">>, <<"/", "logout">>, <<"/", "sitemap.xml">> >>

\* whether the path of a route matches the path of a request
RouteMatches(route, path) ==
    \/ route = path
    \/ route = <<"/", "{fiddlekey}">> /\ Len(path) = 2 /\ path[1] = "/"

\* the route that answers GET path: the first registered one that matches
GetRoute(path) ==
    GetRoutes[CHOOSE i \in 1..Len(GetRoutes) :
                 /\ RouteMatches(GetRoutes[i], path)
                 /\ \A j \in 1..(i - 1) : ~RouteMatches(GetRoutes[j], path)]

\* GET /logout as the application answers it
GetLogout(rows, sess) ==
    IF GetRoute(<<"/", "logout">>) = <<"/", "logout">> THEN logout(sess)
    ELSE get_fiddle_handler(rows, sess, <<"logout">>)

Usernames == {"alice", "bob"}
Passwords == { <<"secret">>, <<"wrong">> }

\* bcrypt.gensalt() draws a salt at random
Salts == {"salt1", "salt2"}

\* the fiddles that /createfiddle is asked to save
FiddleIds == { <<"abc123">>, <<"d8c4vu">> }
FiddleTitles == {"t", "u"}
FiddleScripts == { <<"alert(1)">>, <<"alert(2)">> }

\* the slug of a URL key, before the last '-'
Slugs == { <<"my", "-", "fiddle", "-">>, <<"cats", "-">> }

SiteInit ==
    /\ now = 0
    /\ ticks = 0
    /\ cache = {}
    /\ fiddles = {}
    /\ inflight = {}
    /\ commits = {}
    /\ obs = None
    /\ users = {}
    /\ session = <<>>
    /\ doc = None

\* POST /register
Register ==
    \E username \in Usernames, password \in Passwords, salt \in Salts :
        LET r == register(users, session, username, hashpw(password, salt))
        IN  /\ users' = r.users
            /\ session' = r.session
            /\ obs' = [kind |-> "register", username |-> username,
                       password |-> password, users |-> users, session |-> session,
                       response |-> r.response]
            /\ UNCHANGED <<now, ticks, cache, fiddles, inflight, commits, doc>>

\* POST /login
Login ==
    \E username \in Usernames, password \in Passwords :
        LET r == login(users, session, username, password)
        IN  /\ session' = r.session
            /\ obs' = [kind |-> "login", username |-> username,
                       password |-> password, users |-> users, session |-> session,
                       response |-> r.response]
            /\ UNCHANGED <<now, ticks, cache, fiddles, inflight, commits, doc, users>>

\* GET /logout
Logout ==
    /\ session' = GetLogout(fiddles, session).session
    /\ obs' = [kind |-> "logout", username |-> "", password |-> <<>>,
               users |-> users, session |-> session,
               response |-> GetLogout(fiddles, session).response]
    /\ UNCHANGED <<now, ticks, cache, fiddles, inflight, commits, doc, users>>

\* GET /createfiddle: create_fiddle_handler fills a Fiddle and saves it
SaveFiddle ==
    \E id \in FiddleIds, title \in FiddleTitles, script \in FiddleScripts :
        LET obj == [id |-> id, title |-> title, script |-> script, style |-> <<"body{}">>]
        IN  /\ fiddles' = save(fiddles, obj)
            /\ obs' = [kind |-> "save", obj |-> obj, fiddles |-> fiddles]
            /\ UNCHANGED <<now, ticks, cache, inflight, commits, doc, users, session>>

SiteNext == Register \/ Login \/ Logout \/ SaveFiddle

SiteSpec == SiteInit /\ [][SiteNext]_vars

\* ---------------------------------------------------------- the claims

\* the call obs tells of, as inflight holds it
ObsCall == [fiddle_name |-> obs.fiddle_name, path |-> obs.path]

\* the first segment of the target path, lower-cased
ObsDomain == LowerAll(SubSeq(obs.path, 1, RunEnd(obs.path, 1, {"/"}) - 1))

\* a row of the table as the MirroredContent get_by_key_name makes of it
ContentOf(row) ==
    [original_address |-> row.original_address, translated_address |-> row.translated_address,
     status |-> row.status, headers |-> row.headers, data |-> row.data,
     base_url |-> row.base_url]

\* C1: a request whose domain (first segment of the target path, lower-cased)
\* is in the denylist performs no outbound fetch and is never left waiting
\* for one, whatever the cache holds and whatever ran before; it is answered
\* with the error that carries the 403 and leaves the cache as it was.
C1_BlacklistNeverFetches ==
    /\ \A call \in inflight :
           LowerAll(SubSeq(call.path, 1, RunEnd(call.path, 1, {"/"}) - 1))
               \notin BLACKLISTED_URLS
    /\ (obs # None /\ ObsDomain \in BLACKLISTED_URLS
        /\ ~HasToken(obs.user_agent, "AppEngine-Google") /\ HasToken(obs.fiddle_name, "-")
        /\ ~EndsWith(obs.path, <<"favicon.ico">>))
       => /\ ~HasToken(obs.steps, "fetch")
          /\ obs.response = Raised("403: Access to this URL is not allowed")
          /\ obs.after = obs.seen
    /\ (obs # None /\ ObsDomain \in BLACKLISTED_URLS) => ~HasToken(obs.steps, "fetch")

\* C1 witness: a denied request has been answered while the cache held
\* entries and while another call was waiting for its fetch
C1_Witness ==
    /\ obs # None
    /\ ObsDomain \in BLACKLISTED_URLS
    /\ obs.response = Raised("403: Access to this URL is not allowed")
    /\ cache # {}
    /\ inflight # {}

\* C2: a request rejected at validation (no '-' in the session id, or the
\* crawler's user-agent) has performed no cache read, no cache write and no
\* fetch: its list of storage and network steps is empty, the cache is as it
\* was, the call is not waiting for a fetch, and the answer is an error.
C2_ValidationFirst ==
    (obs # None /\ obs.kind = "start"
     /\ (~HasToken(obs.fiddle_name, "-") \/ HasToken(obs.user_agent, "AppEngine-Google")))
    => /\ obs.steps = <<>>
       /\ obs.after = obs.seen
       /\ ObsCall \notin inflight
       /\ obs.response.status >= 400

\* C2 witness: a request without '-' in its session id was rejected while the
\* cache held an entry for the very URL it names
C2_Witness ==
    /\ obs # None
    /\ ~HasToken(obs.fiddle_name, "-")
    /\ obs.response = Raised("400: Invalid fiddle name")
    /\ obs.seen # {}

\* C3: an entry written at time t has expiry t + 2,592,000; a read before the
\* expiry returns the entry and leaves it in the table; a read after the
\* expiry returns absent and the table holds no record for the key once the
\* read is done.
C3_ExpiryAndLazyEviction ==
    /\ (obs # None /\ HasToken(obs.steps, "cache_put"))
       => /\ obs.after # {}
          /\ \A row \in obs.after : row.expiry = obs.at + 2592000
    /\ (obs # None /\ obs.kind = "start" /\ HasToken(obs.steps, "cache_get"))
       => \A row \in obs.seen :
              /\ obs.at < row.expiry
                 => obs.content = ContentOf(row) /\ obs.after = obs.seen
              /\ obs.at > row.expiry
                 => obs.content = None /\ obs.after = {}

\* C3 witness: a read made after the expiry of the entry it found
C3_Witness ==
    /\ obs # None
    /\ obs.kind = "start"
    /\ HasToken(obs.steps, "cache_get")
    /\ \E row \in obs.seen : obs.at > row.expiry
    /\ obs.after = {}

\* C4: the fetch happens only on a miss.  A request that fetches found no
\* entry or an expired one; a request that finds an entry before its expiry
\* is answered from it, without a fetch; a request that finds an expired
\* entry fetches again, and the entry a fetch stores is fresh; an entry
\* stored stays in the table until its expiry.
C4_FetchOnlyOnMiss ==
    /\ (obs # None /\ obs.kind = "start" /\ HasToken(obs.steps, "fetch"))
       => \A row \in obs.seen : row.expiry < obs.at
    /\ (obs # None /\ obs.kind = "start" /\ HasToken(obs.steps, "cache_get"))
       => \A row \in obs.seen :
              /\ obs.at < row.expiry
                 => /\ ~HasToken(obs.steps, "fetch")
                    /\ ObsCall \notin inflight
                    /\ obs.content = ContentOf(row)
                    /\ obs.response.status = row.status
              /\ obs.at > row.expiry
                 => HasToken(obs.steps, "fetch") /\ ObsCall \in inflight
    /\ (obs # None /\ obs.kind = "resume" /\ HasToken(obs.steps, "cache_put"))
       => \E row \in obs.after :
              /\ obs.after = {row}
              /\ ContentOf(row) = obs.content
              /\ obs.at < row.expiry
    /\ \A c \in commits :
           now < c.at + 2592000
           => \E row \in RowsOf(cache, c.key_name) : now < row.expiry

\* C4 witness: a request made later than the write of the entry and before
\* its expiry was answered from the cache
C4_Witness ==
    /\ obs # None
    /\ obs.kind = "start"
    /\ obs.steps = <<"cache_get">>
    /\ \E row \in obs.seen : row.expiry < obs.at + 2592000 /\ obs.at < row.expiry
    /\ obs.response.status = 200

\* C5: calls for the same URL may interleave, each fetching and each
\* writing; each call that comes back from its fetch ends with a response,
\* and the table holds for the key exactly one record, complete and equal to
\* the record of the insert that committed last.
C5_LastWriteWins ==
    /\ (obs # None /\ obs.kind = "resume")
       => obs.response # None /\ obs.response.status \in 100..599
    /\ \A c \in commits :
           now <= c.at + 2592000
           => RowsOf(cache, c.key_name) =
                  { [key_name           |-> c.key_name,
                     original_address   |-> c.content.original_address,
                     translated_address |-> c.content.translated_address,
                     status             |-> c.content.status,
                     headers            |-> c.content.headers,
                     data               |-> c.content.data,
                     base_url           |-> c.content.base_url,
                     expiry             |-> c.at + 2592000] }

\* C5 witness: a call came back from its fetch and wrote over the record
\* another session's call for the same URL had written while it was waiting;
\* nothing is in flight any more
C5_Witness ==
    /\ obs # None
    /\ obs.kind = "resume"
    /\ HasToken(obs.steps, "cache_put")
    /\ inflight = {}
    /\ \E row \in obs.seen : row.expiry = obs.at + 2592000 /\ ContentOf(row) # obs.content
    /\ \E row \in obs.after : obs.after = {row} /\ ContentOf(row) = obs.content

\* C6: the table holds at most one record per key, the key is the tag and
\* the digest of "http://" + target path, and every record has all of its
\* columns set; what get returns is a whole record.
C6_OneCompleteRecordPerKey ==
    /\ \A r1, r2 \in cache : r1.key_name = r2.key_name => r1 = r2
    /\ \A row \in cache :
           /\ DOMAIN row = {"key_name", "original_address", "translated_address", "status",
                            "headers", "data", "base_url", "expiry"}
           /\ row.key_name = [tag |-> "hash_", sha256 |-> row.original_address]
           /\ \E rq \in Requests :
                  row.original_address = <<"http:", "/", "/">> \o rq.path
           /\ Len(row.translated_address) > 0
           /\ row.status \in 100..599
           /\ DOMAIN row.headers # {}
           /\ Len(row.data) > 0
           /\ Len(row.base_url) > 0
           /\ row.expiry >= 2592000
    /\ (obs # None /\ obs.content # None)
       => DOMAIN obs.content = {"original_address", "translated_address", "status",
                                "headers", "data", "base_url"}

\* C6 witness: an insert met a record with its key and the table holds one
\* record for the key afterwards, a different one
C6_Witness ==
    /\ obs # None
    /\ obs.kind = "resume"
    /\ HasToken(obs.steps, "cache_put")
    /\ Cardinality(obs.seen) = 1
    /\ Cardinality(obs.after) = 1
    /\ obs.after # obs.seen

\* C8: no response body the proxy gives session S for domain D contains
\* /S/D/S/D.
C8_NoDoublePrefix ==
    (obs # None /\ obs.response # None /\ HasToken(obs.fiddle_name, "-"))
    => ~Contains(obs.response.body,
                 <<"/">> \o obs.fiddle_name \o <<"/">> \o ObsDomain
                 \o <<"/">> \o obs.fiddle_name \o <<"/">> \o ObsDomain)

\* what is left of an absolute reference after its scheme and the "//":
\* host, path, query string and fragment
AfterScheme(ref) ==
    IF StartsWith(ref, <<"/", "/">>) THEN Drop(ref, 2) ELSE Drop(ref, 3)

\* C7: for a base context with session S, rewriting leaves a reference that
\* starts with /S/ as it is, rewriting the rewritten text again changes
\* nothing, and so does the pass proxy_route makes over the stored text.
C7_RewriteIdempotent ==
    (doc # None /\ HasToken(doc.base_url, "/"))
    => /\ (doc.passes >= 1
           /\ StartsWith(doc.ref, <<"/">> \o SessionOf(doc.base_url) \o <<"/">>))
          => doc.once = Markup(doc.attr, doc.quote, doc.ref)
       /\ doc.passes >= 2 => doc.text = doc.once
       /\ (doc.passes = 1 /\ doc.page # <<>>) => doc.page = doc.once

\* C9: a reference http://host/path, https://host/path or //host/path is
\* rewritten to /S/host/path under session S and to /host/path when the base
\* context has no session id, query string and fragment as they were and the
\* scheme gone.
C9_AbsoluteRewritten ==
    (doc # None /\ doc.passes >= 1
     /\ (StartsWith(doc.ref, <<"http:", "/", "/">>) \/ StartsWith(doc.ref, <<"https:", "/", "/">>)
         \/ StartsWith(doc.ref, <<"/", "/">>))
     /\ HasToken(AfterScheme(doc.ref), "/"))
    => doc.once = Markup(doc.attr, doc.quote,
                         (IF HasToken(doc.base_url, "/")
                          THEN <<"/">> \o SessionOf(doc.base_url) ELSE <<>>)
                         \o <<"/">> \o AfterScheme(doc.ref))

\* C10: under session S on a page of domain D a root-relative reference
\* /path is rewritten to /S/D/path, query string and fragment as they were,
\* and the bare / to /S/D/.  (A reference that already starts with /S/ is
\* C7's case.)
C10_RootRelativeRewritten ==
    (doc # None /\ doc.passes >= 1 /\ HasToken(doc.base_url, "/")
     /\ StartsWith(doc.ref, <<"/">>) /\ ~StartsWith(doc.ref, <<"/", "/">>)
     /\ ~StartsWith(doc.ref, <<"/">> \o SessionOf(doc.base_url) \o <<"/">>))
    => doc.once = Markup(doc.attr, doc.quote,
                         <<"/">> \o SessionOf(doc.base_url) \o <<"/">> \o DomainOf(doc.base_url)
                         \o doc.ref)

\* the names between the slashes of a path
Segments(path) == SelectSeq(path, LAMBDA t : t # "/")

\* the names of the directory of the accessed page: what stands between the
\* host and the last name of its path
PageDirectory(accessed_url) ==
    SubSeq(Segments(Drop(accessed_url, 4)), 1, Len(Segments(Drop(accessed_url, 4))) - 1)

\* standard resolution of the names of a relative reference from a
\* directory: "." stays, ".." goes up and stops at the root
RECURSIVE Resolved(_, _)
Resolved(dir, names) ==
    IF Len(names) = 0 THEN dir
    ELSE IF names[1] = "." THEN Resolved(dir, Tail(names))
    ELSE IF names[1] = ".."
    THEN Resolved(SubSeq(dir, 1, Len(dir) - 1), Tail(names))
    ELSE Resolved(Append(dir, names[1]), Tail(names))

\* the path made of names, a slash before each
Slashed(names) == [i \in 1..(2 * Len(names)) |-> IF i % 2 = 1 THEN "/" ELSE names[i \div 2]]

\* s with every run of slashes made one slash
Squeezed(s) ==
    LET keep == {i \in 1..Len(s) : ~(s[i] = "/" /\ i > 1 /\ s[i - 1] = "/")}
    IN  [k \in 1..Cardinality(keep) |->
            s[CHOOSE i \in keep : Cardinality({j \in keep : j <= i}) = k]]

\* C11: under session S on domain D a directory-relative reference (path,
\* ./path, ../path) in an href or src attribute is resolved against the
\* directory of the accessed page, "." and ".." collapsed, and comes out as
\* /S/D/<resolved path>.
C11_RelativeResolved ==
    (doc # None /\ doc.passes >= 1 /\ HasToken(doc.base_url, "/")
     /\ doc.attr \in {"href=", "src="}
     /\ doc.ref[1] \notin {"/", "http:", "https:", "data:"})
    => doc.once = Markup(doc.attr, doc.quote,
                         <<"/">> \o SessionOf(doc.base_url) \o <<"/">> \o DomainOf(doc.base_url)
                         \o Slashed(Resolved(PageDirectory(doc.accessed_url),
                                             Segments(doc.ref))))

\* C12: a data: URL is left as it is by the rewriter, in every context, for
\* every base context and accessed page; the text that carries it comes out
\* unchanged from the rewrite and from the pass at response time.
C12_DataUrlUntouched ==
    (doc # None /\ doc.passes >= 1 /\ HasToken(doc.base_url, "/") /\ doc.ref[1] = "data:")
    => /\ doc.text = Markup(doc.attr, doc.quote, doc.ref)
       /\ doc.page # <<>> => doc.page = Markup(doc.attr, doc.quote, doc.ref)

\* C13: under session S the rewritten text has its reference under the proxy
\* path space in every context (href, src, action, blanks around '=',
\* @import, @import url(), url()): what precedes the reference is followed
\* by /S/.
C13_AllContextsRewritten ==
    (doc # None /\ doc.passes >= 1 /\ HasToken(doc.base_url, "/") /\ doc.ref[1] # "data:")
    => Contains(doc.once,
                (IF doc.quote = <<>>
                 THEN <<Opening(doc.attr)[Len(Opening(doc.attr))]>> ELSE doc.quote)
                \o <<"/">> \o SessionOf(doc.base_url) \o <<"/">>)

\* C14: rewriting changes the reference and nothing else: the rewritten
\* text begins with the text before the reference and its quote, and ends
\* with the same quote and the text after it.
C14_ShapePreserved ==
    (doc # None /\ doc.passes >= 1 /\ HasToken(doc.base_url, "/") /\ ~HasToken(doc.ref, "href="))
    => /\ StartsWith(doc.once, Opening(doc.attr) \o doc.quote)
       /\ EndsWith(doc.once, doc.quote \o Closing(doc.attr))
       /\ Len(doc.once) > Len(Opening(doc.attr)) + 2 * Len(doc.quote) + Len(Closing(doc.attr))

\* C15: under session S on domain D a reference with runs of slashes in its
\* path (//path//to//resource, /a//b.png) in an href or src attribute comes
\* out as /S/D/ and the path with every run made one slash.
C15_SlashRunsCollapsed ==
    (doc # None /\ doc.passes >= 1 /\ HasToken(doc.base_url, "/")
     /\ doc.attr \in {"href=", "src="}
     /\ doc.ref[1] = "/" /\ ~HasToken(doc.ref, "?")
     /\ Contains(Tail(Squeezed(doc.ref)), <<"/">>)
     /\ Contains(Drop(doc.ref, SkipWhile(doc.ref, 1, {"/"}) - 1), <<"/", "/">>))
    => doc.once = Markup(doc.attr, doc.quote,
                         <<"/">> \o SessionOf(doc.base_url) \o <<"/">> \o DomainOf(doc.base_url)
                         \o Squeezed(doc.ref))

\* C16: a request whose session id has no '-' is answered with a
\* client-error status, one of 400..499.
C16_InvalidSessionClientError ==
    (obs # None /\ ~HasToken(obs.fiddle_name, "-"))
    => obs.response.status \in 400..499

\* C17: a request with a valid session id whose domain is in the denylist is
\* answered with status 403.
C17_DenylistedForbidden ==
    (obs # None /\ HasToken(obs.fiddle_name, "-") /\ ObsDomain \in BLACKLISTED_URLS
     /\ ~HasToken(obs.user_agent, "AppEngine-Google")
     /\ ~EndsWith(obs.path, <<"favicon.ico">>))
    => obs.response.status = 403

\* C18: when the fetch made on a cache miss fails at the transport level
\* (the origin gives no response), the client is answered with status 404,
\* never with a 5xx status.
C18_FetchFailureNotFound ==
    (obs # None /\ obs.kind = "resume" /\ obs.outcome = None)
    => obs.response.status = 404

\* C19: a request whose fiddle name has no '-' is answered with HTTP status
\* 500, as test_mirror_handler_invalid_fiddle asserts.
C19_InvalidFiddleIs500 ==
    (obs # None /\ ~HasToken(obs.fiddle_name, "-"))
    => obs.response.status = 500

\* C19 witness: the request for fiddle name "invalidfiddle" has been
\* answered with status 500 while another call was waiting for its fetch
C19_Witness ==
    /\ obs # None
    /\ obs.kind = "start"
    /\ obs.fiddle_name = <<"invalidfiddle">>
    /\ obs.response.status = 500
    /\ obs.steps = <<>>
    /\ inflight # {}

\* C20: no response depends on the text of an internal exception: the
\* request that was answered after the read of the cache failed gets the
\* same status and the same body whatever the message of the error is.
C20_ErrorTextNotReflected ==
    [][(obs' # None /\ obs'.kind = "start" /\ obs'.error # <<>>)
       => \A read_error \in ReadErrors \ {<<>>} :
              proxy_route(obs'.fiddle_name, obs'.path, obs'.user_agent, read_error, cache,
                          now, fiddles).response = obs'.response]_vars

\* C21: when the origin answers the requested URL U through a redirect
\* that ends at V, the entry is stored under the key of V, and the relative
\* reference of the body is rewritten against the directory of V, not of U.
C21_RedirectUsesFinalUrl ==
    (obs # None /\ obs.kind = "resume" /\ obs.outcome # None
     /\ obs.outcome.url # HTTP_PREFIX \o obs.path /\ HasToken(obs.steps, "cache_put"))
    => /\ RowsOf(cache, get_url_key_name(obs.outcome.url)) # {}
       /\ Contains(obs.content.data,
                   <<"/">> \o obs.fiddle_name \o <<"/">>
                   \o SubSeq(obs.outcome.url, 4, Len(obs.outcome.url) - 1)
                   \o <<"/", "x.png">>)

\* the latest step answered from a MirroredContent, fetched or cached
Proxied == obs # None /\ obs.kind \in {"start", "resume"} /\ obs.content # None

\* the header names the proxy strips
StrippedNames ==
    { "set-cookie", "expires", "cache-control", "connection", "keep-alive",
      "proxy-authenticate", "proxy-authorization", "te", "trailers", "transfer-encoding",
      "upgrade", "x-frame-options", "content-security-policy", "x-xss-protection" }

\* the header names as the origin wrote them, in mixed case
OriginNames == { doc.outcome.headers[i][1] : i \in 1..Len(doc.outcome.headers) }

\* how often token t stands in s
Count(s, t) == Cardinality({i \in 1..Len(s) : s[i] = t})

\* C22: in every cache record and every proxied response the header names
\* are lower-case (none is spelt as the origin spelt it), no stripped header
\* of the origin is present, and the only cache-control a response carries
\* is the proxy's own max-age.
C22_HeadersSanitised ==
    /\ \A row \in cache :
           /\ DOMAIN row.headers \cap (StrippedNames \cup OriginNames) = {}
           /\ "content-type" \in DOMAIN row.headers
    /\ Proxied
       => /\ DOMAIN obs.response.headers \cap OriginNames = {}
          /\ DOMAIN obs.response.headers \cap StrippedNames = {"cache-control"}
          /\ obs.response.headers["cache-control"] = <<"max-age=", 2592000>>

\* C22 witness: a request was answered from the cache record of an origin
\* answer that carried Set-Cookie, Cache-Control and X-Frame-Options
C22_Witness ==
    /\ Proxied
    /\ obs.kind = "start"
    /\ cache # {}
    /\ {"Set-Cookie", "Cache-Control", "X-Frame-Options"} \subseteq OriginNames
    /\ "cache-control" \in DOMAIN obs.response.headers

\* C23: in every proxied response whose body was transformed (text/html or
\* text/css) the content-length header is the length of the body sent.
C23_ContentLengthOfBodySent ==
    (Proxied /\ IsTransformed(DictGet(obs.content.headers, "content-type")))
    => obs.response.headers["content-length"] = <<Len(obs.response.body)>>

\* C24: every HTML response into which the script is injected carries a
\* content-security-policy header (the one with the nonce of the request).
C24_CspWithNonce ==
    (Proxied /\ StartsWith(DictGet(obs.content.headers, "content-type"), <<"text/html">>))
    => "content-security-policy" \in DOMAIN obs.response.headers

\* C25: an HTML response for an existing session has exactly one block with
\* id webfiddle-js and one with id webfiddle-css, however often the URL was
\* served before; no cache record holds such a block; a response that is
\* not HTML has no injected block and its body is the cached data.
C25_OneOverlayNeverStored ==
    /\ \A row \in cache :
           /\ ~HasToken(row.data, "<script id=\"webfiddle-js\">")
           /\ ~HasToken(row.data, "<style id=\"webfiddle-css\">")
    /\ (Proxied /\ StartsWith(DictGet(obs.content.headers, "content-type"), <<"text/html">>)
        /\ byUrlKey(fiddles, obs.fiddle_name) # None)
       => /\ Count(obs.response.body, "<script id=\"webfiddle-js\">") = 1
          /\ Count(obs.response.body, "<style id=\"webfiddle-css\">") = 1
    /\ (Proxied /\ ~StartsWith(DictGet(obs.content.headers, "content-type"), <<"text/html">>))
       => /\ obs.response.body = obs.content.data
          /\ \A row \in obs.seen : obs.kind = "start" => obs.response.body = row.data
          /\ ~HasToken(obs.response.body, "<script id=\"webfiddle-js\">")
          /\ ~HasToken(obs.response.body, "<style id=\"webfiddle-css\">")
          /\ ~HasToken(obs.response.body, "<script>")

\* C25 witness: the page was served from the cache to a session whose
\* fiddle was created after the page was stored
C25_Witness ==
    /\ Proxied
    /\ obs.kind = "start"
    /\ obs.fiddle_name = <<"test", "-", "abc123">>
    /\ fiddles # {}
    /\ obs.seen # {}
    /\ Count(obs.response.body, "<style id=\"webfiddle-css\">") = 1

\* C26: in every HTML response the client script stands immediately after
\* the opening <head> tag, and at position 0 of the body when the document
\* has no <head> tag.
C26_ScriptRightAfterHead ==
    (Proxied /\ StartsWith(DictGet(obs.content.headers, "content-type"), <<"text/html">>))
    => IF HasToken(obs.response.body, "<head>")
       THEN StartsWith(Drop(obs.response.body, RunEnd(obs.response.body, 1, {"<head>"})),
                       request_blocker(obs.fiddle_name, ObsDomain))
       ELSE StartsWith(obs.response.body, request_blocker(obs.fiddle_name, ObsDomain))

C28_WriteFailureContained ==
    (obs # None /\ obs.kind = "resume" /\ obs.outcome # None
     /\ ~HasToken(obs.steps, "cache_put"))
    => /\ obs.response.status = obs.outcome.status_code
       /\ obs.content = NewContent(obs.fiddle_name \o <<"/">> \o ObsDomain, obs.path,
                                   HTTP_PREFIX \o obs.path, obs.outcome)
       /\ obs.response = Respond(obs.content, obs.fiddle_name, ObsDomain, fiddles)
       /\ obs.after = obs.seen
       /\ obs.after = {}
          => proxy_route(obs.fiddle_name, obs.path, Mozilla, <<>>, cache, now, fiddles).await

\* C28 witness: a fetch succeeded, its insert failed, the request was
\* answered 200 and the cache has no record for the URL
C28_Witness ==
    /\ obs # None
    /\ obs.kind = "resume"
    /\ obs.outcome # None
    /\ ~HasToken(obs.steps, "cache_put")
    /\ obs.response.status = 200
    /\ RowsOf(cache, KeyOf(obs.path)) = {}

\* C29: when the read of the cache fails, the request is handled like a
\* miss: the fetch is made and the call waits for it, no error is answered.
C29_ReadFailureIsMiss ==
    (obs # None /\ obs.kind = "start" /\ obs.error # <<>>)
    => /\ HasToken(obs.steps, "fetch")
       /\ ObsCall \in inflight
       /\ obs.response = None

\* C30: GET / with a url query parameter answers with a redirect to
\* /<session>/<host>..., where the session id is new and contains '-'.
C30_HomeRedirectsToSession ==
    (obs # None /\ obs.kind = "home" /\ Len(obs.url) > 0)
    => /\ obs.response.status \in {302, 307}
       /\ "location" \in DOMAIN obs.response.headers
       /\ obs.response.headers["location"][1] = "/"
       /\ HasToken(SubSeq(obs.response.headers["location"], 2,
                          RunEnd(obs.response.headers["location"], 2, {"/"}) - 1), "-")

\* C31: the session store is an upsert keyed by id with a faithful round
\* trip: there is one row per id; after a save of id X, byId(X) and
\* byUrlKey(<slug>-X) both return what was saved, and the other ids read as
\* they did before; byUrlKey returns None for a key whose token after the
\* last '-' is the id of no row.
C31_StoreIsUpsertById ==
    /\ \A f, g \in fiddles : f.id = g.id => f = g
    /\ (obs # None /\ obs.kind = "save")
       => /\ byId(fiddles, obs.obj.id) = obs.obj
          /\ \A slug \in Slugs : byUrlKey(fiddles, slug \o obs.obj.id) = obs.obj
          /\ \A id \in FiddleIds \ {obs.obj.id} :
                /\ byId(fiddles, id) = byId(obs.fiddles, id)
                /\ \A slug \in Slugs :
                      byUrlKey(fiddles, slug \o id) = byUrlKey(obs.fiddles, slug \o id)
    /\ \A id \in FiddleIds, slug \in Slugs :
          (\A f \in fiddles : f.id # id) => byUrlKey(fiddles, slug \o id) = None

\* the password username was registered with, by the rows of table users
RegisteredWith(rows, username, password) ==
    \E u \in rows : u.username = username /\ u.password_hash.digest = password

\* C32: register of a new username and login with the registered password
\* answer 302 and put that user in the session; register of a taken
\* username, login with a wrong password or for an unknown user answer 400
\* and leave the session as it was; logout empties the session; the session
\* comes to carry a user by no other step.
C32_SessionFollowsAuth ==
    /\ (obs # None /\ obs.kind = "register")
       => IF \E u \in obs.users : u.username = obs.username
          THEN /\ obs.response.status = 400
               /\ session = obs.session
               /\ users = obs.users
          ELSE /\ obs.response.status = 302
               /\ session = DictPut(obs.session, "user", obs.username)
               /\ RegisteredWith(users, obs.username, obs.password)
    /\ (obs # None /\ obs.kind = "login")
       => IF RegisteredWith(obs.users, obs.username, obs.password)
          THEN /\ obs.response.status = 302
               /\ session = DictPut(obs.session, "user", obs.username)
          ELSE /\ obs.response.status = 400
               /\ session = obs.session
    /\ (obs # None /\ obs.kind = "logout") => session = <<>>
    /\ (obs # None /\ obs.kind \in {"register", "login", "logout"}
        /\ "user" \in DOMAIN session /\ session # obs.session)
       => /\ obs.kind \in {"register", "login"}
          /\ obs.response.status = 302
    /\ "user" \in DOMAIN session => \E u \in users : u.username = session["user"]

\* the sessions that requests are made for
SessionsAsked == { rq.fiddle_name : rq \in Requests }

\* C33: the body served from the cache to a session for a URL is the body
\* the session would get had its own request populated the entry, and it
\* holds no reference under the prefix of another session.
C33_CacheHitSessionIsolated ==
    (obs # None /\ obs.kind = "start" /\ obs.content # None /\ obs.response # None)
    => /\ \A s1 \in SessionsAsked \ {obs.fiddle_name} :
              ~Contains(obs.response.body, <<"/">> \o s1 \o <<"/">>)
       /\ \A s1 \in SessionsAsked, o \in OriginOutcomes(HTTP_PREFIX \o obs.path) \ {None} :
              obs.content = NewContent(s1 \o <<"/">> \o ObsDomain, obs.path,
                                       HTTP_PREFIX \o obs.path, o)
              => obs.response.body =
                     Respond(NewContent(obs.fiddle_name \o <<"/">> \o ObsDomain, obs.path,
                                        HTTP_PREFIX \o obs.path, o),
                             obs.fiddle_name, ObsDomain, fiddles).body

\* C34: the eviction of get never removes a record that has not expired:
\* the get of a call removes of its key only rows whose expiry is past; the
\* insert of a call that comes back from its fetch leaves for the key a
\* record that lives at least as long as the unexpired one it met; and once
\* no call is in flight, the record of the last insert is in the table as
\* long as it has not expired.
C34_EvictionSparesUnexpired ==
    /\ (obs # None /\ obs.kind = "start")
       => \A row \in obs.seen : row.expiry >= obs.at => row \in obs.after
    /\ (obs # None /\ obs.kind = "resume")
       => \A row \in obs.seen :
              row.expiry >= obs.at => \E r2 \in obs.after : r2.expiry >= row.expiry
    /\ inflight = {}
       => \A c \in commits :
              now <= c.at + EXPIRATION_DELTA_SECONDS
              => \E row \in RowsOf(cache, c.key_name) :
                     row.expiry = c.at + EXPIRATION_DELTA_SECONDS

\* C34 witness: the get of a call met an expired record and removed it while
\* a call of another session for the same URL was waiting for its fetch
C34_Witness ==
    /\ obs # None
    /\ obs.kind = "start"
    /\ \E row \in obs.seen : row.expiry < obs.at
    /\ obs.after = {}
    /\ \E call \in inflight : call.path = obs.path /\ call.fiddle_name # obs.fiddle_name

C36_FailedFetchLeavesCache ==
    [][(obs' # None /\ obs'.kind = "resume" /\ obs'.outcome = None)
       => /\ cache' = cache
          /\ HasToken(obs'.steps, "fetch") /\ ~HasToken(obs'.steps, "cache_put")
          /\ (\A row \in obs'.after : row.expiry < now')
             => LET r == proxy_route(obs'.fiddle_name, obs'.path, Mozilla, <<>>, cache',
                                     now', fiddles')
                IN  r.await /\ HasToken(r.steps, "fetch")]_vars

\* C36 witness: a fetch failed while the table held records, none of them
\* for the URL asked for, and the table has no record for the URL
C36_Witness ==
    /\ obs # None
    /\ obs.kind = "resume"
    /\ obs.outcome = None
    /\ cache # {}
    /\ obs.seen = {}
    /\ RowsOf(cache, KeyOf(obs.path)) = {}

\* C37: under session S on domain D every relative reference the rewriter
\* rewrites, in whatever context and however many ".." it has, comes out
\* starting with /S/D/ and without a ".." segment.
C37_RelativeStaysInSession ==
    (doc # None /\ doc.passes >= 1 /\ HasToken(doc.base_url, "/")
     /\ doc.ref[1] \notin {"/", "http:", "https:", "data:"}
     /\ doc.once # Markup(doc.attr, doc.quote, doc.ref))
    => /\ StartsWith(Drop(doc.once, Len(Opening(doc.attr)) + Len(doc.quote)),
                     <<"/">> \o SessionOf(doc.base_url) \o <<"/">> \o DomainOf(doc.base_url)
                     \o <<"/">>)
       /\ ~HasToken(doc.once, "..")

\* C38: every entry of the denylist is effective, the entries that are a
\* domain followed by a path included: a request of a valid session for
\* exactly the target of an entry is answered with an error, and no fetch
\* is made or waited for.
C38_EveryDenylistEntryBlocks ==
    /\ \A call \in inflight : call.path \notin BLACKLISTED_URLS
    /\ (obs # None /\ obs.kind \in {"start", "resume"} /\ obs.path \in BLACKLISTED_URLS
        /\ HasToken(obs.fiddle_name, "-"))
       => /\ ~HasToken(obs.steps, "fetch")
          /\ obs.response # None
          /\ obs.response.status >= 400

\* C39: the query string of a proxied request is part of the resolved URL:
\* a request with a query string that is answered from the cache is
\* answered from the entry whose address and key are those of "http://" +
\* path + "?" + query, so requests that differ in the query string only do
\* not share an entry; and when it goes to the fetch, the table holds no
\* live entry of that URL.
C39_QueryStringInUrlAndKey ==
    (obs # None /\ obs.kind = "start" /\ Len(obs.query) > 0 /\ obs.content # None)
    => /\ obs.content.original_address = HTTP_PREFIX \o obs.path \o <<"?">> \o obs.query
       /\ \E row \in cache :
              /\ ContentOf(row) = obs.content
              /\ row.key_name =
                     get_url_key_name(HTTP_PREFIX \o obs.path \o <<"?">> \o obs.query)

====
